---- MODULE Spec2Model ----
(***************************************************************************)
(* Model of src/num_cpus_stub.c: moonbit_get_cpu_count() ("logical") and   *)
(* moonbit_get_physical_cpu_count() ("physical") on each of the            *)
(* preprocessor branches (_WIN32, __APPLE__, __linux__, other Unix,        *)
(* unknown platform).                                                      *)
(*                                                                         *)
(* The host (platform, OS query answers, /proc/cpuinfo content, allocator  *)
(* answer, compiler treatment of signed overflow) is fixed in the initial  *)
(* state.  Caller threads invoke the two functions; every function body is *)
(* split into the steps between its OS calls and loop iterations, and the  *)
(* steps of different threads interleave.                                  *)
(***************************************************************************)
EXTENDS Integers, Sequences, FiniteSets, TLC

VARIABLES host, threads, pc, op, frame, ret, held, misuse, returned

vars == <<host, threads, pc, op, frame, ret, held, misuse, returned>>

(***************************************************************************)
(* Bounds of the model.                                                    *)
(***************************************************************************)
MaxLines == 3
MaxRecords == 2
NumThreads == 2

(***************************************************************************)
(* C integer types.  int is 32 bits two's complement; DWORD is an unsigned *)
(* 32-bit value kept as two 16-bit halves; long (LP64) is a signed high    *)
(* word and an unsigned low word.                                          *)
(***************************************************************************)
INT_MAX == 2147483647
INT_MIN == -INT_MAX - 1

U32(hi, lo) == [hi16 |-> hi, lo16 |-> lo]
Long(hi, lo) == [hi |-> hi, lo |-> lo]

\* (int) of an unsigned 32-bit value: the same 32 bits read as two's complement.
IntOfU32(u) ==
    IF u.hi16 >= 32768 THEN (u.hi16 - 65536) * 65536 + u.lo16
                       ELSE u.hi16 * 65536 + u.lo16

\* (int) of a long: the low 32 bits read as two's complement.
IntOfLong(c) == IntOfU32(c.lo)

\* cpus < 1 on a long.
LongLessThanOne(c) == c.hi < 0 \/ (c.hi = 0 /\ c.lo.hi16 = 0 /\ c.lo.lo16 = 0)

\* a + b in 32-bit two's complement, as the imul/lea instructions compute it.
Add32(a, b) ==
    IF a > 0 /\ b > 0 /\ a > INT_MAX - b
        THEN (a - INT_MAX - 1) + (b - INT_MAX - 1)
    ELSE IF a < 0 /\ b < 0 /\ a < INT_MIN - b
        THEN (a + INT_MAX + 1) + (b + INT_MAX + 1)
    ELSE a + b

\* a * b in 32-bit two's complement: shift-and-add over the 32 bits of b.
RECURSIVE MulBits(_, _, _)
MulBits(a, b, n) ==
    IF n = 0 THEN 0
    ELSE Add32(IF b % 2 = 1 THEN a ELSE 0, MulBits(Add32(a, a), b \div 2, n - 1))

Mul32(a, b) == MulBits(a, b, 32)

\* a * b does not fit in an int, for a, b >= 1.
MulOverflows(a, b) == a > INT_MAX \div b

(***************************************************************************)
(* The host: everything the two functions read from their environment.     *)
(***************************************************************************)
\* Signed overflow in (max_core_id + 1) * (max_physical_id + 1) is undefined.
\* "wrapv": the arithmetic wraps and the test physical_cpus > 0 is kept
\* (gcc -O0, -fwrapv).  "nooverflow": the compiler derives physical_cpus > 0
\* from max_core_id >= 0 and max_physical_id >= 0 and deletes the test
\* (gcc -O2 emits lea/add/imul/ret for lines 128-130).
Builds == {"wrapv", "nooverflow"}

\* sizeof(SYSTEM_LOGICAL_PROCESSOR_INFORMATION) on 64-bit Windows.
SizeofSLPI == 32

RelationProcessorCore == "RelationProcessorCore"
Relationships == {RelationProcessorCore, "RelationNumaNode"}

\* One line of /proc/cpuinfo as the parser sees it: what it starts with, and
\* whether sscanf's %d finds a number after the separator, and which.
Line(k, m, v) == [key |-> k, matched |-> m, val |-> v]
IdVals == {0, 1, 65535}
Lines ==
    {Line(k, TRUE, v) : k \in {"core id", "physical id"}, v \in IdVals}
        \cup {Line("processor", FALSE, 0), Line("core id", FALSE, 0)}

SeqsUpTo(S, n) == UNION {[1..k -> S] : k \in 0..n}

\* Values of sysinfo.dwNumberOfProcessors: 0, 2, 2^31.
DwordVals == {U32(0, 0), U32(0, 2), U32(32768, 0)}
\* Values of sysconf(_SC_NPROCESSORS_ONLN): -1, 0, 1, 4, 2^31, 2^32.
OnlnVals ==
    {Long(-1, U32(65535, 65535)), Long(0, U32(0, 0)), Long(0, U32(0, 1)),
     Long(0, U32(0, 4)), Long(0, U32(32768, 0)), Long(1, U32(0, 0))}
\* Values of the hw.physicalcpu parameter.
HwVals == {-1, 0, 2, 8}

BaseHost ==
    [platform |-> "unknown", build |-> "wrapv",
     dwNumberOfProcessors |-> U32(0, 1),
     probeLength |-> 0, mallocOk |-> TRUE, fetchOk |-> TRUE,
     fetchLength |-> 0, table |-> <<>>,
     onln |-> Long(0, U32(0, 1)),
     sysctlOk |-> TRUE, hw_physicalcpu |-> 1,
     fopenOk |-> TRUE, cpuinfo |-> <<>>]

\* Windows hosts.  The table holds whole records followed by tail bytes of a
\* partial record; the size probe reports the table's length or 0 (failure).
WindowsHosts(dws, tables, tails) ==
    { [BaseHost EXCEPT !.platform = "windows",
                       !.dwNumberOfProcessors = d,
                       !.table = tb,
                       !.fetchLength = Len(tb) * SizeofSLPI + tl,
                       !.probeLength = IF pr THEN Len(tb) * SizeofSLPI + tl ELSE 0,
                       !.mallocOk = m, !.fetchOk = f] :
        d \in dws, tb \in tables, tl \in tails,
        pr \in BOOLEAN, m \in BOOLEAN, f \in BOOLEAN }

MacHosts(onlns, hws) ==
    { [BaseHost EXCEPT !.platform = "macos", !.onln = o,
                       !.sysctlOk = s, !.hw_physicalcpu = v] :
        o \in onlns, s \in BOOLEAN, v \in hws }

LinuxHosts(onlns, files, builds) ==
    { [BaseHost EXCEPT !.platform = "linux", !.onln = o, !.build = b,
                       !.cpuinfo = c] :
        o \in onlns, c \in files, b \in builds }
      \cup
    { [BaseHost EXCEPT !.platform = "linux", !.onln = o, !.fopenOk = FALSE] :
        o \in onlns }

UnixHosts(onlns) == { [BaseHost EXCEPT !.platform = "unix", !.onln = o] : o \in onlns }

UnknownHosts == { BaseHost }

\* Hosts explored with one caller thread.
Hosts ==
    WindowsHosts(DwordVals, SeqsUpTo(Relationships, MaxRecords), {0, 8})
      \cup MacHosts(OnlnVals, HwVals)
      \cup LinuxHosts({Long(0, U32(0, 0)), Long(0, U32(0, 4)), Long(1, U32(0, 0))},
                      SeqsUpTo(Lines, MaxLines), Builds)
      \cup UnixHosts(OnlnVals)
      \cup UnknownHosts

\* Hosts explored with NumThreads concurrent caller threads.
ConcurrentHosts ==
    WindowsHosts({U32(0, 4)},
                 {<<RelationProcessorCore, RelationProcessorCore>>,
                  <<"RelationNumaNode", RelationProcessorCore>>}, {0})
      \cup MacHosts({Long(0, U32(0, 4))}, {0, 2})
      \cup LinuxHosts({Long(0, U32(0, 4))},
                      {<<Line("physical id", TRUE, 0), Line("core id", TRUE, 1)>>,
                       <<Line("core id", TRUE, 1)>>}, {"wrapv"})
      \cup UnixHosts({Long(0, U32(0, 4))})
      \cup UnknownHosts

(***************************************************************************)
(* moonbit_get_cpu_count(), one definition per preprocessor branch.        *)
(***************************************************************************)
CpuCountWindows(h) == IntOfU32(h.dwNumberOfProcessors)

CpuCountUnix(h) == IF LongLessThanOne(h.onln) THEN 1 ELSE IntOfLong(h.onln)

CpuCountUnknown(h) == 1

CpuCount(h) ==
    CASE h.platform = "windows" -> CpuCountWindows(h)
      [] h.platform \in {"macos", "linux", "unix"} -> CpuCountUnix(h)
      [] OTHER -> CpuCountUnknown(h)

(***************************************************************************)
(* Call frames.  frame[i] is the storage of the automatic variables of the *)
(* call running in thread i; a step of a function body maps the frame to   *)
(* the next frame, the next position, the value returned (when the step    *)
(* returns) and the resource it acquires or releases.                      *)
(***************************************************************************)
FrameInit ==
    [buffer |-> "NULL", returnLength |-> 0, physicalCores |-> 0, byteOffset |-> 0,
     file |-> "NULL", pos |-> 0, physical_cpus |-> 0,
     core_id |-> 0, physical_id |-> 0, max_core_id |-> 0, max_physical_id |-> 0]

Go(p, f, e) == [pc |-> p, fr |-> f, rv |-> 0, eff |-> e]
Return(f, v, e) == [pc |-> "done", fr |-> f, rv |-> v, eff |-> e]

\* The variables declared with static storage: one frame for all threads.
SharedStatic(t) == 1

\* Every variable of both functions has automatic storage: one frame per thread.
LocalOf(t) == t

(***************************************************************************)
(* moonbit_get_physical_cpu_count(), _WIN32 branch.                        *)
(***************************************************************************)
\* Lines 21-30: the size probe, and the fallback when it reports length 0.
WinProbeStep(f, h) ==
    LET f1 == [f EXCEPT !.buffer = "NULL", !.returnLength = h.probeLength]
    IN  IF f1.returnLength = 0
            THEN Return(f1, CpuCount(h), "none")
            ELSE Go("win_malloc", f1, "none")

\* Lines 32-35: malloc(returnLength).
WinMallocStep(f, h) ==
    IF h.mallocOk
        THEN Go("win_fetch", [f EXCEPT !.buffer = "block"], "malloc")
        ELSE Return([f EXCEPT !.buffer = "NULL"], CpuCount(h), "none")

\* The fallback without free(buffer).
WinFetchFailLeak(f, h) == Return(f, CpuCount(h), "none")

\* Lines 37-40, the data fetch failed: free the buffer, fall back.
WinFetchFail(f, h) == Return(f, CpuCount(h), "free")

\* physicalCores not reset at the start of the scan.
WinScanInitKeepCount(f) == [f EXCEPT !.byteOffset = 0]

\* Lines 42-43.
WinScanInit(f) == [f EXCEPT !.physicalCores = 0, !.byteOffset = 0]

\* Lines 37-43: the data fetch into the buffer.
WinFetchStep(f, h) ==
    IF ~h.fetchOk
        THEN WinFetchFail(f, h)
        ELSE Go("win_scan", WinScanInit([f EXCEPT !.returnLength = h.fetchLength]), "none")

\* Line 45: the loop condition.
WinLoopCond(f) == f.byteOffset + SizeofSLPI <= f.returnLength

\* Every record counted, whatever its Relationship.
CountsEveryRecord(rel) == TRUE

\* Line 49.
CountsAsCore(rel) == rel = RelationProcessorCore

\* Lines 46-51: the record at byteOffset is counted when it describes a core.
WinScanStep(f, h) ==
    LET ptr == h.table[(f.byteOffset \div SizeofSLPI) + 1]
        n == IF CountsAsCore(ptr) THEN f.physicalCores + 1 ELSE f.physicalCores
    IN  Go("win_advance", [f EXCEPT !.physicalCores = n], "none")

\* Line 53.
WinAdvanceStep(f, h) ==
    Go("win_scan", [f EXCEPT !.byteOffset = f.byteOffset + SizeofSLPI], "none")

\* Lines 56-57.
WinFinishStep(f, h) ==
    Return(f, IF f.physicalCores > 0 THEN f.physicalCores ELSE CpuCount(h), "free")

(***************************************************************************)
(* moonbit_get_physical_cpu_count(), __APPLE__ branch (lines 87-95).       *)
(***************************************************************************)
MacSysctlStep(f, h) ==
    IF h.sysctlOk
        THEN Return([f EXCEPT !.physical_cpus = h.hw_physicalcpu],
                    IF h.hw_physicalcpu > 0 THEN h.hw_physicalcpu ELSE CpuCount(h),
                    "none")
        ELSE Return([f EXCEPT !.physical_cpus = 0], CpuCount(h), "none")

(***************************************************************************)
(* moonbit_get_physical_cpu_count(), __linux__ branch.                     *)
(***************************************************************************)
\* max_physical_id starting at 0 instead of -1.
LinuxLocalsZeroMax(f) ==
    [f EXCEPT !.physical_cpus = 0, !.core_id = -1, !.physical_id = -1,
              !.max_core_id = -1, !.max_physical_id = 0]

\* Lines 105-109.
LinuxLocals(f) ==
    [f EXCEPT !.physical_cpus = 0, !.core_id = -1, !.physical_id = -1,
              !.max_core_id = -1, !.max_physical_id = -1]

\* Lines 99-109: fopen, and the fallback when it fails.
LinuxOpenStep(f, h) ==
    IF ~h.fopenOk
        THEN Return([f EXCEPT !.file = "NULL"], CpuCount(h), "none")
        ELSE Go("linux_read", LinuxLocals([f EXCEPT !.file = "open", !.pos = 0]), "fopen")

\* Line 111: fgets returns a line.
LinuxLoopCond(f, h) == f.pos < Len(h.cpuinfo)

\* sscanf(line, "...: %d", &x): x is assigned only when the number is matched.
Sscanf(line, x) == IF line.matched THEN line.val ELSE x

\* Lines 112-122: one line of the descriptor table.
LinuxLineStep(f, h) ==
    LET line == h.cpuinfo[f.pos + 1]
        f1 == [f EXCEPT !.pos = f.pos + 1]
    IN  IF line.key = "core id"
            THEN LET c == Sscanf(line, f.core_id)
                 IN  Go("linux_read",
                        [f1 EXCEPT !.core_id = c,
                                   !.max_core_id = IF c > f.max_core_id THEN c ELSE @],
                        "none")
        ELSE IF line.key = "physical id"
            THEN LET q == Sscanf(line, f.physical_id)
                 IN  Go("linux_read",
                        [f1 EXCEPT !.physical_id = q,
                                   !.max_physical_id = IF q > f.max_physical_id THEN q ELSE @],
                        "none")
        ELSE Go("linux_read", f1, "none")

\* Line 128.
BothSet(f) == f.max_core_id >= 0 /\ f.max_physical_id >= 0

\* Line 130, the test physical_cpus > 0 as the build compiled it.
ProductPositive(h, product) ==
    IF h.build = "nooverflow" THEN TRUE ELSE product > 0

\* Lines 125-134.
LinuxFinishStep(f, h) ==
    LET f1 == [f EXCEPT !.file = "closed"]
        product == Mul32(Add32(f.max_core_id, 1), Add32(f.max_physical_id, 1))
    IN  IF BothSet(f)
            THEN Return([f1 EXCEPT !.physical_cpus = product],
                        IF ProductPositive(h, product) THEN product ELSE CpuCount(h),
                        "fclose")
            ELSE Return(f1, CpuCount(h), "fclose")

(***************************************************************************)
(* The steps as one function of the position, and a whole call run alone.  *)
(***************************************************************************)
Entry(o, h) ==
    IF o = "logical"
        THEN CASE h.platform = "windows" -> "cpu_count_windows"
               [] h.platform = "unknown" -> "cpu_count_unknown"
               [] OTHER -> "cpu_count_unix"
        ELSE CASE h.platform = "windows" -> "win_probe"
               [] h.platform = "macos" -> "mac_sysctl"
               [] h.platform = "linux" -> "linux_open"
               [] h.platform = "unix" -> "unix_physical"
               [] OTHER -> "unknown_physical"

StepAt(p, f, h) ==
    CASE p = "cpu_count_windows" -> Return(f, CpuCountWindows(h), "none")
      [] p = "cpu_count_unix" -> Return(f, CpuCountUnix(h), "none")
      [] p = "cpu_count_unknown" -> Return(f, CpuCountUnknown(h), "none")
      [] p = "win_probe" -> WinProbeStep(f, h)
      [] p = "win_malloc" -> WinMallocStep(f, h)
      [] p = "win_fetch" -> WinFetchStep(f, h)
      [] p = "win_scan" -> IF WinLoopCond(f) THEN WinScanStep(f, h) ELSE WinFinishStep(f, h)
      [] p = "win_advance" -> WinAdvanceStep(f, h)
      [] p = "mac_sysctl" -> MacSysctlStep(f, h)
      [] p = "linux_open" -> LinuxOpenStep(f, h)
      [] p = "linux_read" -> IF LinuxLoopCond(f, h) THEN LinuxLineStep(f, h)
                                                    ELSE LinuxFinishStep(f, h)
      [] p = "unix_physical" -> Return(f, CpuCount(h), "none")
      [] p = "unknown_physical" -> Return(f, 1, "none")

\* The value a call returns when its steps run to completion on their own.
RECURSIVE RunFrom(_, _, _)
RunFrom(p, f, h) ==
    LET r == StepAt(p, f, h)
    IN  IF r.pc = "done" THEN r.rv ELSE RunFrom(r.pc, r.fr, h)

RunAlone(o, h) == RunFrom(Entry(o, h), FrameInit, h)

(***************************************************************************)
(* The state machine.                                                      *)
(***************************************************************************)
Ops == {"logical", "physical"}
AllThreads == 1..NumThreads

Init ==
    /\ \/ threads = {1} /\ host \in Hosts
       \/ threads = AllThreads /\ host \in ConcurrentHosts
    /\ pc = [t \in AllThreads |-> "idle"]
    /\ op = [t \in AllThreads |-> "none"]
    /\ frame = [t \in AllThreads |-> FrameInit]
    /\ ret = [t \in AllThreads |-> 0]
    /\ held = [t \in AllThreads |-> {}]
    /\ misuse = FALSE
    /\ returned = [o \in Ops |-> {}]

Resource(e) == IF e \in {"malloc", "free"} THEN "buffer" ELSE "file"

\* Thread t takes the step r of its call.
Apply(t, r) ==
    /\ pc' = [pc EXCEPT ![t] = r.pc]
    /\ frame' = [frame EXCEPT ![LocalOf(t)] = r.fr]
    /\ ret' = [ret EXCEPT ![t] = r.rv]
    /\ held' = [held EXCEPT ![t] =
                   CASE r.eff \in {"malloc", "fopen"} -> @ \cup {Resource(r.eff)}
                     [] r.eff \in {"free", "fclose"} -> @ \ {Resource(r.eff)}
                     [] OTHER -> @]
    /\ misuse' = (misuse \/ (r.eff \in {"free", "fclose"} /\ Resource(r.eff) \notin held[t])
                         \/ (r.eff \in {"malloc", "fopen"} /\ Resource(r.eff) \in held[t]))
    /\ returned' = IF r.pc = "done"
                       THEN [returned EXCEPT ![op[t]] = @ \cup {r.rv}]
                       ELSE returned
    /\ UNCHANGED <<host, threads, op>>

At(t, p) == t \in threads /\ pc[t] = p
Fr(t) == frame[LocalOf(t)]

\* A caller invokes one of the two functions.
Call(t, o) ==
    /\ At(t, "idle")
    /\ pc' = [pc EXCEPT ![t] = Entry(o, host)]
    /\ op' = [op EXCEPT ![t] = o]
    /\ UNCHANGED <<host, threads, frame, ret, held, misuse, returned>>

\* The caller takes the returned value.
Leave(t) ==
    /\ At(t, "done")
    /\ pc' = [pc EXCEPT ![t] = "idle"]
    /\ op' = [op EXCEPT ![t] = "none"]
    /\ ret' = [ret EXCEPT ![t] = 0]
    /\ UNCHANGED <<host, threads, frame, held, misuse, returned>>

LogicalWindows(t) == At(t, "cpu_count_windows") /\ Apply(t, Return(Fr(t), CpuCountWindows(host), "none"))
LogicalUnix(t) == At(t, "cpu_count_unix") /\ Apply(t, Return(Fr(t), CpuCountUnix(host), "none"))
LogicalUnknown(t) == At(t, "cpu_count_unknown") /\ Apply(t, Return(Fr(t), CpuCountUnknown(host), "none"))

WinProbe(t) == At(t, "win_probe") /\ Apply(t, WinProbeStep(Fr(t), host))
WinMalloc(t) == At(t, "win_malloc") /\ Apply(t, WinMallocStep(Fr(t), host))
WinFetch(t) == At(t, "win_fetch") /\ Apply(t, WinFetchStep(Fr(t), host))
WinScan(t) == At(t, "win_scan") /\ WinLoopCond(Fr(t)) /\ Apply(t, WinScanStep(Fr(t), host))
WinAdvance(t) == At(t, "win_advance") /\ Apply(t, WinAdvanceStep(Fr(t), host))
WinFinish(t) == At(t, "win_scan") /\ ~WinLoopCond(Fr(t)) /\ Apply(t, WinFinishStep(Fr(t), host))

MacSysctl(t) == At(t, "mac_sysctl") /\ Apply(t, MacSysctlStep(Fr(t), host))

LinuxOpen(t) == At(t, "linux_open") /\ Apply(t, LinuxOpenStep(Fr(t), host))
LinuxLine(t) == At(t, "linux_read") /\ LinuxLoopCond(Fr(t), host) /\ Apply(t, LinuxLineStep(Fr(t), host))
LinuxFinish(t) == At(t, "linux_read") /\ ~LinuxLoopCond(Fr(t), host) /\ Apply(t, LinuxFinishStep(Fr(t), host))

UnixPhysical(t) == At(t, "unix_physical") /\ Apply(t, Return(Fr(t), CpuCount(host), "none"))
UnknownPhysical(t) == At(t, "unknown_physical") /\ Apply(t, Return(Fr(t), 1, "none"))

Next ==
    \E t \in AllThreads :
        \/ \E o \in Ops : Call(t, o)
        \/ Leave(t)
        \/ LogicalWindows(t)
        \/ LogicalUnix(t)
        \/ LogicalUnknown(t)
        \/ WinProbe(t)
        \/ WinMalloc(t)
        \/ WinFetch(t)
        \/ WinScan(t)
        \/ WinAdvance(t)
        \/ WinFinish(t)
        \/ MacSysctl(t)
        \/ LinuxOpen(t)
        \/ LinuxLine(t)
        \/ LinuxFinish(t)
        \/ UnixPhysical(t)
        \/ UnknownPhysical(t)

Spec == Init /\ [][Next]_vars

(***************************************************************************)
(* What the host holds, read off it directly.                              *)
(***************************************************************************)
\* The value logical_count() returns on the host.
LogicalValue(h) == RunAlone("logical", h)

\* The non-negative ids the descriptor table gives for a field.
SeenIds(h, k) ==
    { h.cpuinfo[i].val : i \in { j \in 1..Len(h.cpuinfo) :
          h.cpuinfo[j].key = k /\ h.cpuinfo[j].matched /\ h.cpuinfo[j].val >= 0 } }
HasIds(h, k) == SeenIds(h, k) # {}
MaxOf(S) == CHOOSE m \in S : \A x \in S : x <= m
MaxId(h, k) == MaxOf(SeenIds(h, k))

\* The descriptor table opens and gives both fields.
LinuxBothFields(h) ==
    h.platform = "linux" /\ h.fopenOk /\ HasIds(h, "core id") /\ HasIds(h, "physical id")

\* (max_core_id + 1) * (max_physical_id + 1) is larger than INT_MAX.
ProductTooLarge(h) ==
    \/ MaxId(h, "core id") = INT_MAX
    \/ MaxId(h, "physical id") = INT_MAX
    \/ MulOverflows(MaxId(h, "core id") + 1, MaxId(h, "physical id") + 1)

\* The product as the 32-bit multiplication leaves it.
WrappedProduct(h) == Mul32(Add32(MaxId(h, "core id"), 1), Add32(MaxId(h, "physical id"), 1))

\* The size probe, the allocation and the data fetch all succeed.
WindowsFetched(h) ==
    h.platform = "windows" /\ h.probeLength # 0 /\ h.mallocOk /\ h.fetchOk

\* Whole records of the fetched table with relationship RelationProcessorCore.
CoreRecords(h) ==
    Cardinality({ i \in 1..(h.fetchLength \div SizeofSLPI) : h.table[i] = RelationProcessorCore })

DoneOp(t, o) == t \in threads /\ pc[t] = "done" /\ op[t] = o

(***************************************************************************)
(* Claims.                                                                 *)
(***************************************************************************)

\* C1: on every platform branch and for every value the OS query reports
\* (0, negative, not fitting a signed 32-bit int), logical_count() returns
\* an integer >= 1.
C1_LogicalAtLeastOne ==
    \A t \in AllThreads : DoneOp(t, "logical") => ret[t] >= 1

\* C2: on every platform branch and every exit path, physical_count()
\* returns an integer >= 1.
C2_PhysicalAtLeastOne ==
    \A t \in AllThreads : DoneOp(t, "physical") => ret[t] >= 1

\* The primary physical-core mechanism is unavailable or yields a
\* non-positive result.
PrimaryUnavailable(h) ==
    CASE h.platform = "windows" -> h.probeLength = 0 \/ ~h.mallocOk \/ ~h.fetchOk
      [] h.platform = "macos" -> ~h.sysctlOk \/ h.hw_physicalcpu <= 0
      [] h.platform = "linux" ->
            ~h.fopenOk \/ (LinuxBothFields(h) /\ WrappedProduct(h) <= 0)
      [] h.platform = "unix" -> TRUE
      [] OTHER -> FALSE

\* C3: fallback equivalence: whenever the primary physical-core mechanism is
\* unavailable or yields a non-positive result, physical_count() returns
\* exactly the value logical_count() returns in the same host state.
C3_FallbackEquivalence ==
    \A t \in AllThreads :
        DoneOp(t, "physical") /\ PrimaryUnavailable(host) => ret[t] = LogicalValue(host)

\* C4: in every host state physical_count() <= logical_count(), for every
\* descriptor-table content, sparse or large ids included.
C4_PhysicalAtMostLogical ==
    \A t \in AllThreads : DoneOp(t, "physical") => ret[t] <= LogicalValue(host)

\* The primary mechanism succeeds with a positive count larger than the value
\* of logical_count().
PrimaryExceedsLogical(h) ==
    CASE h.platform = "windows" ->
            WindowsFetched(h) /\ CoreRecords(h) > 0 /\ CoreRecords(h) > LogicalValue(h)
      [] h.platform = "macos" ->
            h.sysctlOk /\ h.hw_physicalcpu > 0 /\ h.hw_physicalcpu > LogicalValue(h)
      [] h.platform = "linux" ->
            LinuxBothFields(h) /\
               (ProductTooLarge(h) \/
                (MaxId(h, "core id") + 1) * (MaxId(h, "physical id") + 1) > LogicalValue(h))
      [] OTHER -> FALSE

\* C4, amended: physical_count() <= logical_count() in every host state
\* except those where the primary mechanism succeeds with a positive count
\* larger than the value of logical_count(); the primary count is not capped.
C4_AtMostLogicalUnlessPrimaryExceeds ==
    \A t \in AllThreads :
        DoneOp(t, "physical") /\ ~PrimaryExceedsLogical(host) => ret[t] <= LogicalValue(host)

\* A Linux call that returned a product of both maxima below the logical count.
C4_Witness ==
    \E t \in AllThreads :
        /\ DoneOp(t, "physical") /\ LinuxBothFields(host)
        /\ ~PrimaryExceedsLogical(host)
        /\ ret[t] > 1 /\ ret[t] < LogicalValue(host)

\* C5: idempotence: with the host state unchanged, every call of the same
\* operation returns the same value; no call changes what a later call returns.
C5_Idempotent ==
    \A o \in Ops : Cardinality(returned[o]) <= 1

\* Two completed physical_count() calls that counted the records of a table.
C5_Witness ==
    \E t, u \in AllThreads :
        /\ t # u /\ DoneOp(t, "physical") /\ DoneOp(u, "physical")
        /\ WindowsFetched(host) /\ CoreRecords(host) = 2
        /\ returned["physical"] = {2}

\* C6: under any interleaving of the steps of concurrent calls, each call
\* works on its own call-local variables and returns the value it returns
\* when run alone.
C6_ConcurrentCallsIndependent ==
    \A t \in AllThreads : t \in threads /\ pc[t] = "done" => ret[t] = RunAlone(op[t], host)

\* One call has returned its count while another thread is in the middle of
\* its own scan of the table.
C6_Witness ==
    \E t, u \in AllThreads :
        /\ t # u /\ DoneOp(t, "physical") /\ ret[t] = 2
        /\ WindowsFetched(host)
        /\ pc[u] = "win_scan" /\ frame[LocalOf(u)].byteOffset = SizeofSLPI
        /\ frame[LocalOf(u)].physicalCores = 1

\* C7: every resource physical_count() acquires (the scratch buffer, the
\* descriptor file handle) is released exactly once before the call returns,
\* on every exit path; nothing is released that was not acquired.
C7_ResourcesReleased ==
    /\ ~misuse
    /\ \A t \in AllThreads : pc[t] \in {"done", "idle"} => held[t] = {}

\* A call that allocated the buffer, failed to fetch the data and returned.
C7_Witness ==
    \E t \in AllThreads :
        /\ DoneOp(t, "physical") /\ host.platform = "windows"
        /\ host.probeLength # 0 /\ host.mallocOk /\ ~host.fetchOk
        /\ frame[LocalOf(t)].buffer = "block" /\ held[t] = {}

\* C8: Linux: when the table opens and gives at least one core id and one
\* physical id, both non-negative, the result is
\* (max_core_id + 1) * (max_physical_id + 1) over all entries of the table.
C8_ProductFormula ==
    \A t \in AllThreads :
        DoneOp(t, "physical") /\ LinuxBothFields(host) =>
            /\ ~ProductTooLarge(host)
            /\ ret[t] = (MaxId(host, "core id") + 1) * (MaxId(host, "physical id") + 1)

\* C9: Windows: when the size probe and the data fetch succeed, the result is
\* the number of whole records whose relationship is RelationProcessorCore;
\* if that number is zero, the result is the value of logical_count(), never 0.
C9_WindowsCoreRecords ==
    \A t \in AllThreads :
        DoneOp(t, "physical") /\ WindowsFetched(host) =>
            IF CoreRecords(host) > 0
                THEN ret[t] = CoreRecords(host)
                ELSE ret[t] = LogicalValue(host) /\ ret[t] # 0

\* C10: Linux: the product formula is applied only when both maxima were set;
\* when exactly one of the two fields appears in the table the result is the
\* value of logical_count() and no product is formed.
C10_BothMaximaRequired ==
    \A t \in AllThreads :
        ( /\ DoneOp(t, "physical") /\ host.platform = "linux" /\ host.fopenOk
          /\ HasIds(host, "core id") # HasIds(host, "physical id") )
        => ret[t] = LogicalValue(host) /\ frame[LocalOf(t)].physical_cpus = 0

\* A call over a table with core ids up to 1 and no physical id.
C10_Witness ==
    \E t \in AllThreads :
        /\ DoneOp(t, "physical") /\ host.platform = "linux" /\ host.fopenOk
        /\ HasIds(host, "core id") /\ ~HasIds(host, "physical id")
        /\ frame[LocalOf(t)].max_core_id = 1
        /\ ret[t] = 4

(***************************************************************************)
(* What remains true of the claims refuted above, outside the inputs that  *)
(* refute them.                                                            *)
(***************************************************************************)
\* The long fits in an int.
FitsInt(c) == (c.hi = 0 /\ c.lo.hi16 < 32768) \/ (c.hi = -1 /\ c.lo.hi16 >= 32768)

\* Off Windows, and with an online-processor count that fits in an int, both
\* functions return at least 1 unless the Linux product overflows.
AtLeastOneInRange ==
    \A t \in AllThreads :
        ( /\ t \in threads /\ pc[t] = "done"
          /\ host.platform # "windows" /\ FitsInt(host.onln)
          /\ ~(LinuxBothFields(host) /\ ProductTooLarge(host)) )
        => ret[t] >= 1

\* Fallback equivalence holds in every build that keeps the test of line 130.
FallbackEquivalenceWrapv ==
    \A t \in AllThreads :
        DoneOp(t, "physical") /\ PrimaryUnavailable(host) /\ host.build = "wrapv"
            => ret[t] = LogicalValue(host)

\* The product formula holds whenever the product fits in an int.
ProductFormulaInRange ==
    \A t \in AllThreads :
        DoneOp(t, "physical") /\ LinuxBothFields(host) /\ ~ProductTooLarge(host)
            => ret[t] = (MaxId(host, "core id") + 1) * (MaxId(host, "physical id") + 1)

\* The Windows result is the number of core records, or the value of
\* logical_count() (whatever it is) when there is none.
WindowsCoreRecordsOrLogical ==
    \A t \in AllThreads :
        DoneOp(t, "physical") /\ WindowsFetched(host) =>
            ret[t] = IF CoreRecords(host) > 0 THEN CoreRecords(host) ELSE LogicalValue(host)

====
